---- MODULE Spec2Model ----
(***************************************************************************)
(* State-machine model of `ros2 graph dot` (DotVerb.main in                *)
(* ros2graph/verb/dot.py): discovery of the nodes, namespace clustering,   *)
(* aggregation of the six record streams into one edge per channel name,   *)
(* resolution of unconnected edges and rendering of the DOT document.      *)
(*                                                                         *)
(* A string that the code splits (a channel name) is a sequence of tokens  *)
(* in which "/" is a token of its own: '/n/rosout' is <<"/","n","/",       *)
(* "rosout">>.  The document is the sequence of calls made on the          *)
(* DotWriter.  The verb runs once per process; a second run on the same    *)
(* discovery snapshot (run = 2) is a second process.                       *)
(***************************************************************************)
EXTENDS Integers, Sequences, FiniteSets, TLC

VARIABLES
    pc,          \* position of DotVerb.main
    run,         \* 1: first pass, 2: second pass on the same snapshot
    args,        \* the parsed arguments: types, unconnected, select
    node_names,  \* result of get_node_names
    ros_nodes,   \* the live graph: the namespace of each of its nodes
    quota,       \* channel records the live graph can still report
    nsOrder,     \* iteration order of the set `namespaces`
    nsIdx,       \* position of the loop of line 87
    nodeIdx,     \* position of the loop of line 97
    snapshot,    \* what each discovery query returned: [node][stream]
    edges,       \* the dict `edges`, in insertion order
    counter,     \* the counter behind get_id
    doc,         \* the calls made on the DotWriter so far
    doc1         \* the document of the first pass, once it is complete

vars == <<pc, run, args, ros_nodes, quota, node_names, nsOrder, nsIdx, nodeIdx,
          snapshot, edges, counter, doc, doc1>>

----------------------------------------------------------------------------
(* Bounds of the model *)

MaxNodes == 2

MaxRecs == 2

MaxRecsOrder == 2

MaxRecsTwoRuns == 1

----------------------------------------------------------------------------
(* Small helpers *)

Range(s) == {s[i] : i \in 1..Len(s)}

Perms(S) == {p \in [1..Cardinality(S) -> S] : Range(p) = S}

NoDupSeqs(S, n) ==
    UNION {{q \in [1..k -> S] : \A i, j \in 1..k : i # j => q[i] # q[j]} : k \in 0..n}

CountIn(s, x) == Cardinality({i \in 1..Len(s) : s[i] = x})

----------------------------------------------------------------------------
(* Channel names and the ignore filter *)

Sep == "/"

ignore_list ==
    { <<"/", "rosout">>, <<"/", "parameter_events">>,
      <<"describe_parameters">>, <<"get_parameter_types">>,
      <<"list_parameters">>, <<"set_parameters">>, <<"get_parameters">>,
      <<"set_parameters_atomically">> }

\* str.split('/'): the segments between the separators, empty ones included
RECURSIVE SplitAcc(_, _, _, _)
SplitAcc(s, i, segs, cur) ==
    IF i > Len(s) THEN Append(segs, cur)
    ELSE IF s[i] = Sep THEN SplitAcc(s, i + 1, Append(segs, cur), <<>>)
    ELSE SplitAcc(s, i + 1, segs, Append(cur, s[i]))

Split(s) == SplitAcc(s, 1, <<>>, <<>>)

LastSegment(s) == LET segs == Split(s) IN segs[Len(segs)]

\* as ignore, without the test of the last segment
ignore_ExactOnly(name) == name \in ignore_list

ignore(name) == name \in ignore_list \/ LastSegment(name) \in ignore_list

\* The channel names the discovery provider may report
Names ==
    { <<"/", "rosout">>,
      <<"/", "n", "/", "get_parameters">>,
      <<"/", "n", "/", "rosout">>,
      <<"/", "X">> }

----------------------------------------------------------------------------
(* The six record streams *)

Streams == <<"sub", "pub", "svc_client", "svc_server", "act_client", "act_server">>

StreamSet == Range(Streams)

Categories == {"topics", "services", "actions"}

CategoryOf(s) ==
    CASE s \in {"sub", "pub"} -> "topics"
      [] s \in {"svc_client", "svc_server"} -> "services"
      [] OTHER -> "actions"

\* as RoleOf, with the service server appended to the sources
RoleOf_ServerAsSource(s) ==
    CASE s \in {"pub", "svc_client", "svc_server", "act_client"} -> "src"
      [] OTHER -> "dst"

\* "src": the node is appended to edge.src; "dst": to edge.dst
RoleOf(s) ==
    CASE s \in {"pub", "svc_client", "act_client"} -> "src"
      [] OTHER -> "dst"

ColourOf(s) ==
    CASE CategoryOf(s) = "topics" -> "blue"
      [] CategoryOf(s) = "services" -> "orange"
      [] OTHER -> "olive"

\* The declared types of a record: a property of the channel's kind
TypesOf(s) ==
    CASE CategoryOf(s) = "topics" -> <<"msg/T", "msg/U">>
      [] CategoryOf(s) = "services" -> <<"srv/S">>
      [] OTHER -> <<"action/A">>

Record(name, s) == [name |-> name, types |-> TypesOf(s), stream |-> s]

----------------------------------------------------------------------------
(* Identifiers and the DotWriter *)

get_id(prefix, c) == <<prefix, c>>

NoId == <<"", 0>>

NoLabel == [text |-> <<>>, count |-> 0, type |-> ""]

Text(t) == [text |-> t, count |-> 0, type |-> ""]

Write(op, id, label) ==
    [op |-> op, id |-> id, label |-> label, src |-> NoId, dst |-> NoId,
     colour |-> "", penwidth |-> 0, style |-> ""]

begin_graph == Write("begin_graph", NoId, NoLabel)

end_graph == Write("end_graph", NoId, NoLabel)

begin_subgraph(id, label) == Write("begin_subgraph", id, Text(<<label>>))

end_subgraph == Write("end_subgraph", NoId, NoLabel)

node(id, label, style) == [Write("node", id, Text(<<label>>)) EXCEPT !.style = style]

edge(src, dst, label, colour, penwidth) ==
    [Write("edge", NoId, label) EXCEPT
        !.src = src, !.dst = dst, !.colour = colour, !.penwidth = penwidth]

\* dw.write of a legend table keyed by `id`
write_table(id, rows) == Write("write", id, Text(rows))

\* dw.write of one legend row connection
write_row(src, dst, port, colour) ==
    [Write("write", NoId, Text(<<port>>)) EXCEPT
        !.src = src, !.dst = dst, !.colour = colour]

----------------------------------------------------------------------------
(* Inputs *)

Namespaces == {"", "/a", "/b"}

NodeNameOf(i) == <<"n1", "n2", "n3", "n4">>[i]

\* --select takes one or more of the three categories (line 41): each category
\* alone, and the default of all three
SelectSets == {{c} : c \in Categories} \cup {Categories}

\* --types is store_true with default True (line 35): always True
ArgsSet == [types : {TRUE}, unconnected : BOOLEAN, select : SelectSets]

\* only the topics are graphed
TopicsArgs == {a \in ArgsSet : a.select = {"topics"}}

\* the node lists of at most MaxNodes nodes with namespaces in `pool`
NodeLists(pool) == UNION {[1..n -> pool] : n \in 0..MaxNodes}

----------------------------------------------------------------------------
(* Initial state: main has been called with parsed arguments *)

InitWith(argsSet, nodeLists, recs) ==
    /\ pc = "init"
    /\ run = 1
    /\ args \in argsSet
    /\ ros_nodes \in nodeLists
    /\ quota = recs
    /\ node_names = <<>>
    /\ nsOrder = <<>>
    /\ nsIdx = 1
    /\ nodeIdx = 1
    /\ snapshot = [i \in 1..MaxNodes |-> [s \in StreamSet |-> <<>>]]
    /\ edges = <<>>
    /\ counter = 0
    /\ doc = <<>>
    /\ doc1 = <<>>

\* any arguments, every node in the root namespace
Init == InitWith(ArgsSet, NodeLists({""}), MaxRecs)

\* topics only, nodes in the root namespace or in /a
InitOrder == InitWith(TopicsArgs, NodeLists({"", "/a"}), MaxRecsOrder)

\* topics only, nodes in any of the namespaces
InitTwoRuns ==
    InitWith({a \in TopicsArgs : a.unconnected}, NodeLists(Namespaces), MaxRecsTwoRuns)

----------------------------------------------------------------------------
(* Lines 54-61: enter NodeStrategy, list the nodes, group them *)

\* the set comprehension of line 57
namespaces(nodes) == {nodes[i].namespace : i \in 1..Len(nodes)}

\* the dict of lines 59-61, as a function of the namespace
grouped_node(ns) == SelectSeq(node_names, LAMBDA n : n.namespace = ns)

\* whether the query of stage k (1..6) is made, cf. lines 98, 129, 160
Selected(k) == CategoryOf(Streams[k]) \in args.select

\* get_node_names: the nodes of the graph, each with an identifier of its own
Discovered(c) ==
    [i \in 1..Len(ros_nodes) |->
        [name |-> NodeNameOf(i), namespace |-> ros_nodes[i],
         id |-> get_id("node_", c + i - 1)]]

Start ==
    /\ pc = "init"
    /\ node_names' = Discovered(counter)
    /\ counter' = counter + Len(ros_nodes)
    \* a Python set of str iterates in an order that depends on the
    \* process's hash seed
    /\ nsOrder' \in Perms(namespaces(Discovered(counter)))
    /\ pc' = "begin"
    /\ UNCHANGED <<run, args, ros_nodes, quota, nsIdx, nodeIdx, snapshot,
                   edges, doc, doc1>>

\* NodeStrategy cannot be entered, or get_node_names raises
StartFails ==
    /\ pc = "init"
    /\ run = 1
    /\ pc' = "failed"
    /\ UNCHANGED <<run, args, ros_nodes, quota, node_names, nsOrder, nsIdx,
                   nodeIdx, snapshot, edges, counter, doc, doc1>>

----------------------------------------------------------------------------
(* Lines 63-84: open the graph and write the legend *)

Legend(c) ==
    LET key_id == get_id("key_", c + 1)
        key2_id == get_id("key2_", c + 2)
    IN << begin_subgraph(get_id("cluster_", c), "legend"),
          write_table(key_id, <<"Topics", "Services", "Actions">>),
          write_table(key2_id, <<"&nbsp;", "&nbsp;", "&nbsp;">>),
          write_row(key_id, key2_id, "i1", "blue"),
          write_row(key_id, key2_id, "i2", "orange"),
          write_row(key_id, key2_id, "i3", "olive"),
          end_subgraph >>

BeginDocument ==
    /\ pc = "begin"
    /\ doc' = <<begin_graph>> \o Legend(counter)
    /\ counter' = counter + 3
    /\ nsIdx' = 1
    /\ pc' = IF nsOrder = <<>> THEN "render" ELSE "clusters"
    /\ UNCHANGED <<run, args, ros_nodes, quota, node_names, nsOrder, nodeIdx,
                   snapshot, edges, doc1>>

----------------------------------------------------------------------------
(* Lines 87-93: one cluster per namespace, the root namespace unwrapped *)

NodeEntries(members) == [i \in 1..Len(members) |-> node(members[i].id, members[i].name, "")]

\* as ClusterWrites, without the end_subgraph of line 93
ClusterWrites_Unclosed(ns, members, c) ==
    IF ns # ""
    THEN <<begin_subgraph(get_id("cluster_", c), ns)>> \o NodeEntries(members)
    ELSE NodeEntries(members)

ClusterWrites(ns, members, c) ==
    IF ns # ""
    THEN <<begin_subgraph(get_id("cluster_", c), ns)>> \o NodeEntries(members)
         \o <<end_subgraph>>
    ELSE NodeEntries(members)

WriteNamespace ==
    /\ pc = "clusters"
    /\ nsIdx <= Len(nsOrder)
    /\ LET ns == nsOrder[nsIdx]
       IN /\ doc' = doc \o ClusterWrites(ns, grouped_node(ns), counter)
          /\ counter' = IF ns # "" THEN counter + 1 ELSE counter
    /\ nsIdx' = nsIdx + 1
    /\ pc' = IF nsIdx = Len(nsOrder) THEN "discover" ELSE "clusters"
    /\ nodeIdx' = 1
    /\ UNCHANGED <<run, args, ros_nodes, quota, node_names, nsOrder, snapshot,
                   edges, doc1>>

----------------------------------------------------------------------------
(* Lines 96-189: fold the records of every node into the dict `edges` *)

Edge(topic, src, dst, id, colour) ==
    [key |-> topic.name, topic |-> topic, src |-> src, dst |-> dst,
     id |-> id, colour |-> colour]

HasKey(es, key) == \E i \in 1..Len(es) : es[i].key = key

\* as setdefault, but storing the value over the one already there
setdefault_Overwrite(es, key, value) ==
    IF HasKey(es, key)
    THEN [i \in 1..Len(es) |-> IF es[i].key = key THEN value ELSE es[i]]
    ELSE Append(es, value)

\* dict.setdefault: the value is stored only when the key is new
setdefault(es, key, value) == IF HasKey(es, key) THEN es ELSE Append(es, value)

\* edges[key].src.append(id) or edges[key].dst.append(id)
append(es, key, role, id) ==
    [i \in 1..Len(es) |->
        IF es[i].key # key THEN es[i]
        ELSE IF role = "src" THEN [es[i] EXCEPT !.src = Append(@, id)]
        ELSE [es[i] EXCEPT !.dst = Append(@, id)]]

\* one `for rec in records:` loop; get_id is evaluated for every record that
\* is not ignored, whether or not setdefault keeps the new Edge
RECURSIVE FoldRecords(_, _, _, _, _, _)
FoldRecords(es, c, recs, i, s, nid) ==
    IF i > Len(recs) THEN [edges |-> es, counter |-> c]
    ELSE IF ignore(recs[i]) THEN FoldRecords(es, c, recs, i + 1, s, nid)
    ELSE LET fresh == Edge(Record(recs[i], s), <<>>, <<>>, get_id("edge_", c),
                           ColourOf(s))
             kept == setdefault(es, recs[i], fresh)
         IN FoldRecords(append(kept, recs[i], RoleOf(s), nid), c + 1, recs,
                        i + 1, s, nid)

\* what a discovery query may return: distinct channel names, in some order
AllResults == NoDupSeqs(Names, Cardinality(Names))

QueryResults(n) == {q \in AllResults : Len(q) <= n}

\* what the six queries of one node may return, from stage k on, when the
\* graph can still report q records; a query that is not made returns nothing
RECURSIVE ResultsFrom(_, _, _)
ResultsFrom(select, k, q) ==
    IF k > 6 THEN {<<>>}
    ELSE UNION {{<<r>> \o w : w \in ResultsFrom(select, k + 1, q - Len(r))} :
                r \in IF CategoryOf(Streams[k]) \in select THEN QueryResults(q)
                      ELSE {<<>>}}

MaxQuota ==
    LET m == IF MaxRecs >= MaxRecsOrder THEN MaxRecs ELSE MaxRecsOrder
    IN IF m >= MaxRecsTwoRuns THEN m ELSE MaxRecsTwoRuns

ResultsTable ==
    [select \in SelectSets, q \in 0..MaxQuota |->
        ResultsFrom(select, 1, q)]

NodeResults(q) == ResultsTable[args.select, q]

\* the results of the six queries of node i, as recorded
Recorded(i) == [k \in 1..6 |-> snapshot[i][Streams[k]]]

RECURSIVE TotalLen(_, _)
TotalLen(res, k) == IF k = 0 THEN 0 ELSE Len(res[k]) + TotalLen(res, k - 1)

\* the body of the loop of line 97 from stage k on: the queries of the
\* selected categories, each followed by its loop over the records
RECURSIVE FoldNode(_, _, _, _, _)
FoldNode(es, c, res, k, nid) ==
    IF k > 6 THEN [edges |-> es, counter |-> c]
    ELSE IF ~Selected(k) THEN FoldNode(es, c, res, k + 1, nid)
    ELSE LET r == FoldRecords(es, c, res[k], 1, Streams[k], nid)
         IN FoldNode(r.edges, r.counter, res, k + 1, nid)

AggregateNode ==
    /\ pc = "discover"
    /\ nodeIdx <= Len(node_names)
    /\ \E res \in IF run = 1 THEN NodeResults(quota) ELSE {Recorded(nodeIdx)} :
         /\ snapshot' = [snapshot EXCEPT ![nodeIdx] = [s \in StreamSet |->
                            res[CHOOSE k \in 1..6 : Streams[k] = s]]]
         /\ quota' = IF run = 1 THEN quota - TotalLen(res, 6) ELSE quota
         /\ LET r == FoldNode(edges, counter, res, 1, node_names[nodeIdx].id)
            IN /\ edges' = r.edges
               /\ counter' = r.counter
    /\ nodeIdx' = nodeIdx + 1
    /\ pc' = IF nodeIdx = Len(node_names) THEN "render" ELSE "discover"
    /\ UNCHANGED <<run, args, ros_nodes, node_names, nsOrder, nsIdx, doc, doc1>>

\* one of the six get_*_info calls raises: the exception leaves main
QueryFails ==
    /\ pc = "discover"
    /\ run = 1
    /\ pc' = "failed"
    /\ UNCHANGED <<run, args, ros_nodes, quota, node_names, nsOrder, nsIdx,
                   nodeIdx, snapshot, edges, counter, doc, doc1>>

----------------------------------------------------------------------------
(* Lines 191-211: placeholders for the empty sides, then the connections *)

\* as Label, with the count appended from one source on
Label_CountFromOne(e, src_cnt) ==
    [text |-> e.topic.name,
     count |-> IF src_cnt >= 1 THEN src_cnt ELSE 0,
     type |-> IF args.types THEN e.topic.types[1] ELSE ""]

Label(e, src_cnt) ==
    [text |-> e.topic.name,
     count |-> IF src_cnt > 1 THEN src_cnt ELSE 0,
     type |-> IF args.types THEN e.topic.types[1] ELSE ""]

\* as Connections, pairing the i-th source with the i-th destination
Connections_Zip(e) ==
    LET ns == Len(e.src)
        nd == Len(e.dst)
    IN [k \in 1..(IF ns < nd THEN ns ELSE nd) |->
          edge(e.src[k], e.dst[k], [text |-> e.topic.name,
                                    count |-> IF ns > 1 THEN ns ELSE 0,
                                    type |-> IF args.types THEN e.topic.types[1] ELSE ""],
               e.colour, ns)]

\* the nested loops of lines 203-211, flattened in their order
Connections(e) ==
    LET ns == Len(e.src)
        nd == Len(e.dst)
    IN [k \in 1..(ns * nd) |->
          edge(e.src[((k - 1) \div nd) + 1], e.dst[((k - 1) % nd) + 1],
               Label(e, ns), e.colour, ns)]

\* as Resolved, without the test of args.unconnected
Resolved_IgnoresFlag(e, c) ==
    LET needSrc == e.src = <<>>
        needDst == e.dst = <<>>
        c1 == IF needSrc THEN c + 1 ELSE c
        blank_r == get_id("blank_r_", c)
        blank_w == get_id("blank_w_", c1)
    IN [edge |-> [e EXCEPT !.src = IF needSrc THEN Append(@, blank_r) ELSE @,
                           !.dst = IF needDst THEN Append(@, blank_w) ELSE @],
        writes |-> (IF needSrc THEN <<node(blank_r, "", "invis")>> ELSE <<>>)
                   \o (IF needDst THEN <<node(blank_w, "", "invis")>> ELSE <<>>),
        counter |-> IF needDst THEN c1 + 1 ELSE c1]

Resolved(e, c) ==
    LET needSrc == args.unconnected /\ e.src = <<>>
        needDst == args.unconnected /\ e.dst = <<>>
        c1 == IF needSrc THEN c + 1 ELSE c
        blank_r == get_id("blank_r_", c)
        blank_w == get_id("blank_w_", c1)
    IN [edge |-> [e EXCEPT !.src = IF needSrc THEN Append(@, blank_r) ELSE @,
                           !.dst = IF needDst THEN Append(@, blank_w) ELSE @],
        writes |-> (IF needSrc THEN <<node(blank_r, "", "invis")>> ELSE <<>>)
                   \o (IF needDst THEN <<node(blank_w, "", "invis")>> ELSE <<>>),
        counter |-> IF needDst THEN c1 + 1 ELSE c1]

\* the loop of line 191 from edge i on: the dict after resolution, the writes
RECURSIVE RenderFrom(_, _, _, _)
RenderFrom(es, i, c, out) ==
    IF i > Len(es) THEN [edges |-> es, counter |-> c, writes |-> out]
    ELSE LET r == Resolved(es[i], c)
         IN RenderFrom([es EXCEPT ![i] = r.edge], i + 1, r.counter,
                       out \o r.writes \o Connections(r.edge))

\* as Finished, with end_graph called before the loop of line 191
Finished_CloseFirst(d, writes) == Append(d, end_graph) \o writes

\* the document after the loop of line 191 and the end_graph of line 213
Finished(d, writes) == Append(d \o writes, end_graph)

(* Line 213: the graph is closed after the NodeStrategy block *)
Render ==
    /\ pc = "render"
    /\ LET r == RenderFrom(edges, 1, counter, <<>>)
       IN /\ edges' = r.edges
          /\ counter' = r.counter
          /\ doc' = Finished(doc, r.writes)
    /\ pc' = "done"
    /\ UNCHANGED <<run, args, ros_nodes, quota, node_names, nsOrder, nsIdx,
                   nodeIdx, snapshot, doc1>>

\* the verb is run again, in a new process, on the same snapshot and arguments
Rerun ==
    /\ pc = "done"
    /\ run = 1
    /\ run' = 2
    /\ doc1' = doc
    /\ doc' = <<>>
    /\ edges' = <<>>
    /\ counter' = 0
    /\ node_names' = <<>>
    /\ nsOrder' = <<>>
    /\ nsIdx' = 1
    /\ nodeIdx' = 1
    /\ pc' = "init"
    /\ UNCHANGED <<args, ros_nodes, quota, snapshot>>

----------------------------------------------------------------------------

\* the steps of a pass whose discovery calls all succeed
Next ==
    \/ Start
    \/ BeginDocument
    \/ WriteNamespace
    \/ AggregateNode
    \/ Render

Spec == Init /\ [][Next]_vars

\* the steps of a pass that graphs the topics only, discovery failures included
NextTopics ==
    \/ Start
    \/ StartFails
    \/ BeginDocument
    \/ WriteNamespace
    \/ AggregateNode
    \/ QueryFails
    \/ Render

SpecOrder == InitOrder /\ [][NextTopics]_vars

NextTwoRuns == NextTopics \/ Rerun

SpecTwoRuns == InitTwoRuns /\ [][NextTwoRuns]_vars

----------------------------------------------------------------------------
(* Vocabulary of the properties *)

Outgoing == {"pub", "svc_client", "act_client"}

Incoming == {"sub", "svc_server", "act_server"}

StreamsOf(cat) ==
    CASE cat = "topics" -> {"sub", "pub"}
      [] cat = "services" -> {"svc_client", "svc_server"}
      [] OTHER -> {"act_client", "act_server"}

\* the positions <<node, stream, index>> of the records named `name` that
\* the streams of `ss` have returned so far
PositionsOf(name, ss) ==
    UNION {{<<i, s, j>> : j \in {j \in 1..Len(snapshot[i][s]) : snapshot[i][s][j] = name}} :
           <<i, s>> \in (1..MaxNodes) \X ss}

CountRecs(name, ss) == Cardinality(PositionsOf(name, ss))

\* the names of the records returned so far
Reported ==
    UNION {Range(snapshot[i][s]) : <<i, s>> \in (1..MaxNodes) \X StreamSet}

\* the part of a name after its last "/" (the whole name when it has none)
AfterLastSep(s) ==
    LET seps == {i \in 1..Len(s) : s[i] = "/"}
        last == IF seps = {} THEN 0 ELSE CHOOSE i \in seps : \A j \in seps : j <= i
    IN SubSeq(s, last + 1, Len(s))

Denylisted(name) == name \in ignore_list \/ AfterLastSep(name) \in ignore_list

EdgesOf(name) == {i \in 1..Len(edges) : edges[i].key = name}

\* the connections of the document, by position
ConnectionsIn(d) == {j \in 1..Len(d) : d[j].op = "edge"}

ConnectionsOf(d, name) == {j \in ConnectionsIn(d) : d[j].label.text = name}

Placeholders(d) == {j \in 1..Len(d) : d[j].op = "node" /\ d[j].style = "invis"}

\* every query of every node has been answered, no placeholder added yet
Aggregated == pc = "render"

----------------------------------------------------------------------------
(* C1 as stated: after aggregation, the edge of a channel name has as many *)
(* sources (destinations) as there are outgoing (incoming) records of that *)
(* name and category, for every category that has records of that name.    *)
C1_PerCategory ==
    Aggregated =>
      \A name \in Names : \A cat \in Categories :
        (~Denylisted(name) /\ CountRecs(name, StreamsOf(cat)) > 0) =>
          \E i \in EdgesOf(name) :
            /\ Len(edges[i].src) = CountRecs(name, StreamsOf(cat) \cap Outgoing)
            /\ Len(edges[i].dst) = CountRecs(name, StreamsOf(cat) \cap Incoming)

(* C1 amended: after aggregation, a channel name that is not ignored has   *)
(* an edge exactly when some selected stream returned a record of it, and  *)
(* that one edge has as many sources (destinations) as there are outgoing  *)
(* (incoming) records of that name over all selected categories together.  *)
C1_AcrossCategories ==
    Aggregated =>
      \A name \in Names :
        ~Denylisted(name) =>
          IF CountRecs(name, StreamSet) = 0 THEN EdgesOf(name) = {}
          ELSE /\ Cardinality(EdgesOf(name)) = 1
               /\ \A i \in EdgesOf(name) :
                    /\ Len(edges[i].src) = CountRecs(name, Outgoing)
                    /\ Len(edges[i].dst) = CountRecs(name, Incoming)

\* a name with outgoing records of two categories has been aggregated
C1_Witness ==
    /\ Aggregated
    /\ \E name \in Names : \E c1, c2 \in Categories :
         /\ c1 # c2
         /\ ~Denylisted(name)
         /\ CountRecs(name, StreamsOf(c1) \cap Outgoing) > 0
         /\ CountRecs(name, StreamsOf(c2) \cap Outgoing) > 0

----------------------------------------------------------------------------
(* C7: a record whose name is a denylist entry, or whose last segment is   *)
(* one, creates no edge and no connection, whatever its stream; the other  *)
(* records returned so far are all in the source and destination lists of  *)
(* the edge of their name.                                                 *)
C7_IgnoreFilter ==
    /\ pc \in {"discover", "render"} =>
         \A name \in Names :
           IF Denylisted(name) THEN EdgesOf(name) = {}
           ELSE CountRecs(name, StreamSet) > 0 =>
                  /\ EdgesOf(name) # {}
                  /\ \A i \in EdgesOf(name) :
                       Len(edges[i].src) + Len(edges[i].dst) = CountRecs(name, StreamSet)
    /\ \A j \in ConnectionsIn(doc) : ~Denylisted(doc[j].label.text)
    /\ \A i \in 1..Len(edges) : ~Denylisted(edges[i].key)

\* a pass has folded a record ignored by its last segment only, and one kept
C7_Witness ==
    /\ pc = "done"
    /\ \E name \in Reported : name \notin ignore_list /\ Denylisted(name)
    /\ \E name \in Reported : ~Denylisted(name)
    /\ ConnectionsIn(doc) # {}

----------------------------------------------------------------------------
(* C10: the edge of a channel name keeps the record, the identifier and    *)
(* the colour given by the first record of that name that is not ignored   *)
(* (nodes in discovery order, per node the six streams in the order of the *)
(* code); later records of the name, of whatever category, only extend its *)
(* source or destination list, no second edge of the name is created, and  *)
(* its connections are drawn in the colour of the first record's category. *)

Least(S) == CHOOSE x \in S : \A y \in S : x <= y

\* the stream of the first record named `name`: the first node that has
\* one, and the first of its six streams that has one
FirstStream(name) ==
    LET order == <<"sub", "pub", "svc_client", "svc_server",
                   "act_client", "act_server">>
        Has(i, k) == name \in Range(snapshot[i][order[k]])
        i0 == Least({i \in 1..MaxNodes : \E k \in 1..6 : Has(i, k)})
    IN order[Least({k \in 1..6 : Has(i0, k)})]

CategoryColour(s) ==
    CASE s \in {"sub", "pub"} -> "blue"
      [] s \in {"svc_client", "svc_server"} -> "orange"
      [] OTHER -> "olive"

IsPrefix(a, b) == Len(a) <= Len(b) /\ SubSeq(b, 1, Len(a)) = a

C10_Seeded ==
    /\ \A i, j \in 1..Len(edges) : i # j => edges[i].key # edges[j].key
    /\ \A i \in 1..Len(edges) :
         LET s == FirstStream(edges[i].key)
         IN /\ edges[i].topic.name = edges[i].key
            /\ edges[i].topic.stream = s
            /\ edges[i].colour = CategoryColour(s)
    /\ \A j \in ConnectionsIn(doc) :
         /\ EdgesOf(doc[j].label.text) # {}
         /\ \A i \in EdgesOf(doc[j].label.text) :
              doc[j].colour = edges[i].colour

C10_Stable ==
    \A i \in 1..Len(edges) :
      /\ i <= Len(edges')
      /\ edges'[i].key = edges[i].key
      /\ edges'[i].topic = edges[i].topic
      /\ edges'[i].id = edges[i].id
      /\ edges'[i].colour = edges[i].colour
      /\ IsPrefix(edges[i].src, edges'[i].src)
      /\ IsPrefix(edges[i].dst, edges'[i].dst)

C10_FirstRecordWins == [](C10_Seeded) /\ [][C10_Stable]_vars

\* an edge fed by records of two categories has been rendered
C10_Witness ==
    /\ pc = "done"
    /\ \E i \in 1..Len(edges) : \E c1, c2 \in Categories :
         /\ c1 # c2
         /\ CountRecs(edges[i].key, StreamsOf(c1)) > 0
         /\ CountRecs(edges[i].key, StreamsOf(c2)) > 0
         /\ ConnectionsOf(doc, edges[i].key) # {}

----------------------------------------------------------------------------
(* C5: in the finished document every edge has exactly one connection per  *)
(* pair of an entry of its source list and an entry of its destination     *)
(* list, repeated entries counted separately: len(src) * len(dst) in all,  *)
(* and no connection joins a pair outside that product.                    *)
C5_CartesianProduct ==
    pc = "done" =>
      /\ \A i \in 1..Len(edges) :
           LET e == edges[i]
               cs == ConnectionsOf(doc, e.key)
           IN /\ Cardinality(cs) = Len(e.src) * Len(e.dst)
              /\ \A s \in Range(e.src) : \A d \in Range(e.dst) :
                   Cardinality({j \in cs : doc[j].src = s /\ doc[j].dst = d})
                     = CountIn(e.src, s) * CountIn(e.dst, d)
      /\ \A j \in ConnectionsIn(doc) :
           \E i \in EdgesOf(doc[j].label.text) :
             doc[j].src \in Range(edges[i].src) /\ doc[j].dst \in Range(edges[i].dst)

\* an edge with a repeated source entry has been rendered
C5_Witness ==
    /\ pc = "done"
    /\ \E i \in 1..Len(edges) :
         /\ \E s \in Range(edges[i].src) : CountIn(edges[i].src, s) >= 2
         /\ Len(edges[i].dst) >= 1

----------------------------------------------------------------------------
(* C6: every connection of an edge has the line thickness n and the label  *)
(* count n when n > 1, no count otherwise, where n is the length of the    *)
(* edge's source list at rendering time, whatever the destination count.   *)
C6_SourceCount ==
    pc = "done" =>
      \A j \in ConnectionsIn(doc) :
        /\ EdgesOf(doc[j].label.text) # {}
        /\ \A i \in EdgesOf(doc[j].label.text) :
             LET n == Len(edges[i].src)
             IN /\ doc[j].penwidth = n
                /\ doc[j].label.count = IF n > 1 THEN n ELSE 0

\* connections of an edge with several sources and one destination
C6_Witness ==
    /\ pc = "done"
    /\ \E i \in 1..Len(edges) :
         /\ Len(edges[i].src) >= 2
         /\ Len(edges[i].dst) = 1
         /\ \A j \in ConnectionsOf(doc, edges[i].key) : doc[j].label.count = Len(edges[i].src)
         /\ ConnectionsOf(doc, edges[i].key) # {}

----------------------------------------------------------------------------
(* C2: when the edges are rendered, an edge with an empty source (resp.    *)
(* destination) list gets, if show_unconnected is set, exactly one         *)
(* invisible placeholder node, written once and appended to that side, and *)
(* one connection per entry of the other side; if it is not set, no        *)
(* placeholder is written and the edge has no connection at all.           *)
C2_Rendering ==
    (pc = "render" /\ pc' = "done") =>
      /\ Len(edges') = Len(edges)
      /\ \A i \in 1..Len(edges) :
           LET e == edges[i]
               r == edges'[i]
               conns == Cardinality(ConnectionsOf(doc', e.key))
               WrittenOnce(id) ==
                   Cardinality({j \in Placeholders(doc') : doc'[j].id = id}) = 1
           IN /\ (args.unconnected /\ e.src = <<>>) =>
                   /\ Len(r.src) = 1 /\ r.dst = e.dst
                   /\ WrittenOnce(r.src[1])
                   /\ conns = Len(e.dst)
              /\ (args.unconnected /\ e.dst = <<>>) =>
                   /\ Len(r.dst) = 1 /\ r.src = e.src
                   /\ WrittenOnce(r.dst[1])
                   /\ conns = Len(e.src)
              /\ args.unconnected => (r.src # <<>> /\ r.dst # <<>>)
              /\ (~args.unconnected /\ (e.src = <<>> \/ e.dst = <<>>)) =>
                   (r = e /\ conns = 0)
              /\ (e.src # <<>> /\ e.dst # <<>>) => r = e
      /\ Cardinality(Placeholders(doc')) =
           IF args.unconnected
           THEN Cardinality({i \in 1..Len(edges) : edges[i].src = <<>>})
                + Cardinality({i \in 1..Len(edges) : edges[i].dst = <<>>})
           ELSE 0

C2_Unconnected == [][C2_Rendering]_vars

\* a pass with show_unconnected has rendered an edge through a placeholder
C2_Witness ==
    /\ pc = "done"
    /\ args.unconnected
    /\ \E j \in Placeholders(doc) : \E k \in ConnectionsIn(doc) :
         doc[k].src = doc[j].id \/ doc[k].dst = doc[j].id

----------------------------------------------------------------------------
(* C3: when a discovery call fails, nothing has been written to the        *)
(* document.                                                               *)
C3_NoPartialDocument == pc = "failed" => doc = <<>>

----------------------------------------------------------------------------
(* C4: the writes of a finished document follow the phases open graph,     *)
(* legend, clusters and node entries, connections, close graph.            *)

IsLegend(w) == w.label.text = <<"legend">>

\* the earliest and the latest phase a write may belong to; an end_subgraph
\* closes the legend or a cluster; `ph` is the phase of a placeholder node
PhaseLo(w, ph) ==
    CASE w.op = "begin_graph" -> 1
      [] w.op = "write" -> 2
      [] w.op = "begin_subgraph" -> IF IsLegend(w) THEN 2 ELSE 3
      [] w.op = "end_subgraph" -> 2
      [] w.op = "node" -> IF w.style = "invis" THEN ph ELSE 3
      [] w.op = "edge" -> 4
      [] OTHER -> 5

PhaseHi(w, ph) == IF w.op = "end_subgraph" THEN 3 ELSE PhaseLo(w, ph)

InPhaseOrder(d, ph) ==
    /\ d # <<>>
    /\ {j \in 1..Len(d) : d[j].op = "begin_graph"} = {1}
    /\ {j \in 1..Len(d) : d[j].op = "end_graph"} = {Len(d)}
    /\ \A i, j \in 1..Len(d) : i < j => PhaseLo(d[i], ph) <= PhaseHi(d[j], ph)

(* C4 as stated: no node entry at all after the first connection.          *)
C4_StrictPhases == pc = "done" => InPhaseOrder(doc, 3)

(* C4 amended: the graph is opened exactly once as the first write and     *)
(* closed exactly once as the last write, and the legend, then the         *)
(* clusters with the entries of the discovered nodes, precede the first    *)
(* connection and the first placeholder; only the invisible placeholder    *)
(* nodes of unconnected edges are written among the connections, each     *)
(* before the connections that use it.                                     *)
C4_PhasesButPlaceholders ==
    pc = "done" =>
      /\ InPhaseOrder(doc, 4)
      /\ \A j \in Placeholders(doc) : \A k \in ConnectionsIn(doc) :
           (doc[k].src = doc[j].id \/ doc[k].dst = doc[j].id) => j < k

\* a placeholder written after a connection, in a document with a cluster
C4_Witness ==
    /\ pc = "done"
    /\ \E i \in ConnectionsIn(doc) : \E j \in Placeholders(doc) : i < j
    /\ \E i \in 1..Len(doc) : doc[i].op = "begin_subgraph" /\ ~IsLegend(doc[i])

----------------------------------------------------------------------------
(* C8: once the clusters are written, every discovered node has exactly    *)
(* one node entry; the entry of a node of a non-empty namespace lies in    *)
(* the one cluster labelled with that namespace, the entry of a root node  *)
(* in no cluster; there is one cluster per distinct non-empty namespace,   *)
(* each closed before the next opens; the nodes of a namespace appear in   *)
(* discovery order.                                                        *)

Opens(d) == {j \in 1..Len(d) : d[j].op = "begin_subgraph"}

Closes(d) == {j \in 1..Len(d) : d[j].op = "end_subgraph"}

\* the subgraphs open at position j
OpenAt(d, j) == {i \in Opens(d) : i < j /\ ~\E k \in Closes(d) : i < k /\ k < j}

EntriesOf(d, n) == {j \in 1..Len(d) : d[j].op = "node" /\ d[j].id = n.id}

ClustersWritten == pc \in {"discover", "render", "done"} \/ (pc = "failed" /\ doc # <<>>)

C8_Clusters ==
    ClustersWritten =>
      /\ \A m \in 1..Len(node_names) :
           LET n == node_names[m]
           IN /\ Cardinality(EntriesOf(doc, n)) = 1
              /\ \A j \in EntriesOf(doc, n) :
                   /\ doc[j].label.text = <<n.name>>
                   /\ IF n.namespace = "" THEN OpenAt(doc, j) = {}
                      ELSE /\ Cardinality(OpenAt(doc, j)) = 1
                           /\ \A i \in OpenAt(doc, j) : doc[i].label.text = <<n.namespace>>
      /\ \A ns \in namespaces(node_names) \ {""} :
           Cardinality({i \in Opens(doc) : doc[i].label.text = <<ns>>}) = 1
      /\ Cardinality(Opens(doc)) = 1 + Cardinality(namespaces(node_names) \ {""})
      /\ Cardinality(Closes(doc)) = Cardinality(Opens(doc))
      /\ \A i, j \in Opens(doc) : i < j => \E k \in Closes(doc) : i < k /\ k < j
      /\ \A m, n \in 1..Len(node_names) :
           (m < n /\ node_names[m].namespace = node_names[n].namespace) =>
             \A i \in EntriesOf(doc, node_names[m]) :
               \A j \in EntriesOf(doc, node_names[n]) : i < j

\* a finished document with the clusters of two namespaces
C8_Witness ==
    /\ pc = "done"
    /\ \E m, n \in 1..Len(node_names) :
         /\ node_names[m].namespace # node_names[n].namespace
         /\ node_names[m].namespace # ""
         /\ node_names[n].namespace # ""

----------------------------------------------------------------------------
(* C9: two passes on the same discovery snapshot with the same arguments   *)
(* write the same document, up to the numbers of the identifiers.          *)

StripIds(d) ==
    [j \in 1..Len(d) |->
        [d[j] EXCEPT !.id = <<@[1]>>, !.src = <<@[1]>>, !.dst = <<@[1]>>]]

C9_Deterministic == (run = 2 /\ pc = "done") => StripIds(doc) = StripIds(doc1)

====
